---- MODULE Spec2Model ----
(***************************************************************************)
(* Quiz session engine of AskTheSage: AdaptiveQuizService (start_quiz,     *)
(* get_next_question, submit_answer, skip_question, end_quiz_early,        *)
(* cancel_quiz_session), the question selection it calls, and the handler  *)
(* writes that touch the same tables (report, completion wrapper).         *)
(* The state is the content of the database tables; every action is one    *)
(* service call, except start_quiz, which is two steps so that two calls   *)
(* can overlap between its read of the ongoing session and its insert.     *)
(***************************************************************************)
EXTENDS Integers, Sequences, FiniteSets, TLC

\* a nullable column holds NULL or Some(value)
NULL == << >>
Some(v) == <<v>>
Val(x) == x[1]

\* ---- bounds of the model ------------------------------------------------
\* session ids handed out, roster rows stored at a time, answers recorded,
\* roster rows reported
MaxSessions == 2
MaxRows == 2
MaxSubmits == 2
MaxReports == 1
\* longest quiz a caller asks for
MaxLen == 3
\* most questions in a course drawn for a cold start
MaxCatalogue == 6
\* longest list whose every order is kept after rng.shuffle
MaxShuffle == 6
\* longest quiz drawn for the selector, and the size of a large bucket
MaxQuiz == 11
\* highest correct streak drawn for the review date
MaxStreak == 10
\* highest seed drawn for a seeded random.Random
MaxSeed == 2
MaxAttempts == 4
MaxElapsed == 8

\* ---- the catalogue: users, courses, questions ----------------------------
Users == {1}
\* course 1 has two questions, course 2 has none
Courses == {1, 2}
Questions == {1, 2}
Procs == {1, 2}
\* ids that match no row
NoUser == 0
NoCourse == 0
NoQuestion == 0

\* Question.course_id
question_course == (1 :> 1) @@ (2 :> 1)
\* Question.difficulty_score (nullable), in tenths: 1.0, 2.0
difficulty_score == (1 :> Some(10)) @@ (2 :> Some(20))
\* Course.min_difficulty, Course.max_difficulty (nullable), in tenths
min_difficulty == (1 :> NULL) @@ (2 :> NULL)
max_difficulty == (1 :> NULL) @@ (2 :> NULL)
\* Question.correct_answer
correct_answer == (1 :> "A") @@ (2 :> "A")
\* answers a caller can send; "skipped" is the sentinel of skip_question
Answers == {" a ", "B"}
Skipped == "skipped"
\* days elapsed since the learner's last attempt of a question, as the
\* clock reads when start_quiz runs
AgeSamples == {0, 5}

\* ---- small helpers -------------------------------------------------------
Min(a, b) == IF a < b THEN a ELSE b
Max(a, b) == IF a > b THEN a ELSE b
Abs(a) == IF a < 0 THEN 0 - a ELSE a
Range(s) == {s[i] : i \in DOMAIN s}
\* s[:k]
Prefix(s, k) == SubSeq(s, 1, Min(Max(k, 0), Len(s)))
\* every order rng.shuffle can leave the list in
RECURSIVE Perms(_)
Perms(S) == IF S = {} THEN {<< >>}
            ELSE UNION {{<<x>> \o s : s \in Perms(S \ {x})} : x \in S}
\* of a list longer than MaxShuffle the rotations and their reversals are kept
Rotations(s) == {[i \in DOMAIN s |-> s[((i + k) % Len(s)) + 1]] : k \in 0..(Len(s) - 1)}
                    \cup {[i \in DOMAIN s |-> s[Len(s) - ((i + k) % Len(s))]] : k \in 0..(Len(s) - 1)}
Shuffles(s) == IF Len(s) <= MaxShuffle THEN {[i \in DOMAIN s |-> s[p[i]]] : p \in Perms(DOMAIN s)}
               ELSE Rotations(s)
\* the elements of S in ascending order
RECURSIVE Ascending(_)
Ascending(S) == IF S = {} THEN << >>
                ELSE LET m == CHOOSE x \in S : \A y \in S : x <= y
                     IN <<m>> \o Ascending(S \ {m})

\* a rational number n/d with d > 0, as <<n, d>>
RatEq(a, b) == a[1] * b[2] = b[1] * a[2]
RatLess(a, b) == a[1] * b[2] < b[1] * a[2]

\* str.strip().lower() on the answers of the model
StripLower(a) == CASE a = "A" -> "a"
                   [] a = " a " -> "a"
                   [] a = "B" -> "b"
                   [] OTHER -> a

\* the inputs of start_quiz the model draws: every user, course and length,
\* and one call each with a user id and a course id that match no row
StartInputs == {<<u, c, n>> : u \in Users, c \in Courses, n \in 0..MaxLen}
                   \cup {<<NoUser, 1, 1>>, <<1, NoCourse, 1>>}

\* ---- state ---------------------------------------------------------------
VARIABLES
    quiz_sessions,           \* id -> QuizSession row
    quiz_session_questions,  \* session id -> its QuizSessionQuestion rows, in insert order
    user_answers,            \* UserAnswer rows, oldest first
    interaction_logs,        \* InteractionLog rows, oldest first
    questions,               \* question id -> total_attempts, total_incorrect
    next_session_id,         \* next primary key of quiz_sessions
    pc                       \* per caller: position of its start_quiz call

db == <<quiz_sessions, quiz_session_questions, user_answers, interaction_logs, questions, next_session_id>>
vars == <<quiz_sessions, quiz_session_questions, user_answers, interaction_logs, questions, next_session_id, pc>>

Idle == [at |-> "idle"]

Init ==
    /\ quiz_sessions = << >>
    /\ quiz_session_questions = << >>
    /\ user_answers = << >>
    /\ interaction_logs = << >>
    /\ questions = [q \in Questions |-> [total_attempts |-> 0, total_incorrect |-> 0]]
    /\ next_session_id = 1
    /\ pc = [p \in Procs |-> Idle]

SessionIds == DOMAIN quiz_sessions
CourseQuestions(c) == {q \in Questions : question_course[q] = c}

\* ---- configuration (config.py ADAPTIVE_QUIZ_CONFIG, DIFFICULTY_BANDS) -----
weakness_weight == 100
new_question_weight == 50
srs_due_weight == 30
srs_overdue_bonus == 20
random_review_weight == 5
\* target percentages
target_weakness_pct == 60
target_new_pct == 25
target_srs_pct == 15
srs_intervals == <<1, 3, 7, 14, 30, 60, 120, 240, 480>>
\* DIFFICULTY_BANDS, in tenths
band_easy == 15
band_medium == 30

\* ---- SRS scheduler -------------------------------------------------------
\* calculate_next_review_date: the number of days added to now;
\* NextReviewDateShortOfLast stops one entry before the end of the table
NextReviewDateShortOfLast(correct_streak) ==
    IF Len(srs_intervals) = 0 THEN 1
    ELSE LET streak == Max(0, correct_streak)
         IN srs_intervals[Min(streak, Len(srs_intervals) - 2) + 1]
calculate_next_review_date(correct_streak) ==
    IF Len(srs_intervals) = 0 THEN 1
    ELSE LET streak == Max(0, correct_streak)
         IN srs_intervals[Min(streak, Len(srs_intervals) - 1) + 1]

\* ---- performance history -------------------------------------------------
\* positions in user_answers of the user's answers to question q
AnswerIdx(u, q) == {i \in DOMAIN user_answers : user_answers[i].user_id = u /\ user_answers[i].question_id = q}
LatestIdx(u, q) == CHOOSE i \in AnswerIdx(u, q) : \A j \in AnswerIdx(u, q) : j <= i
\* _get_user_performance_history: the questions of the course the user has
\* answered, and the UserPerformance of each
PerformedQuestions(u, c) == {q \in CourseQuestions(c) : AnswerIdx(u, q) # {}}
UserPerformance(u, q) ==
    LET latest == user_answers[LatestIdx(u, q)]
    IN [question_id |-> q,
        correct_streak |-> latest.correct_streak,
        last_attempt_correct |-> latest.is_correct,
        last_attempt_idx |-> LatestIdx(u, q),
        total_attempts |-> Cardinality(AnswerIdx(u, q)),
        total_correct |-> Cardinality({i \in AnswerIdx(u, q) : user_answers[i].is_correct}),
        next_review_date |-> latest.next_review_date,
        difficulty_score |-> difficulty_score[q]]

\* ---- question scorer (selector.py _score_question) -----------------------
\* _calculate_recency_factor, in tenths
RecencyFactor(days_since) ==
    IF days_since < 1 THEN 5
    ELSE IF days_since < 7 THEN 8
    ELSE IF days_since < 30 THEN 10
    ELSE 12

\* the clock is read in parts of a day; timedelta.days is the whole days of a
\* difference, rounded down
TicksPerDay == 2
WholeDays(ticks) == ticks \div TicksPerDay
\* performance = NoPerformance for a question never attempted; elapsed = time
\* since the last attempt, in ticks; the review date is kept as days after the
\* last attempt
NoPerformance == [question_id |-> NoQuestion]
ScoreQuestionAt(q, performance, elapsed) ==
    IF performance = NoPerformance
    THEN [question_id |-> q, score |-> <<new_question_weight, 1>>, reason |-> "new"]
    ELSE IF ~performance.last_attempt_correct
    THEN LET total_attempts == Max(performance.total_attempts, 1)
             clamped == Max(0, performance.total_correct)
             total_correct == IF clamped > total_attempts THEN 0 ELSE clamped
         IN [question_id |-> q,
             score |-> <<weakness_weight * total_attempts + 20 * (total_attempts - total_correct), total_attempts>>,
             reason |-> "weakness"]
    ELSE LET days_until_due == IF performance.next_review_date = NULL THEN 1
                               ELSE WholeDays(Val(performance.next_review_date) * TicksPerDay - elapsed)
         IN IF performance.next_review_date # NULL /\ days_until_due <= 0
            THEN [question_id |-> q,
                  score |-> <<srs_due_weight + Min(Abs(days_until_due) * 2, srs_overdue_bonus), 1>>,
                  reason |-> "srs_due"]
            ELSE [question_id |-> q,
                  score |-> <<random_review_weight * RecencyFactor(WholeDays(elapsed)), 10>>,
                  reason |-> "random_review"]
\* the scorer when age whole days have passed since the last attempt
ScoreQuestion(q, performance, age) == ScoreQuestionAt(q, performance, age * TicksPerDay)

\* list.sort(key=score, reverse=True): stable, highest score first
RECURSIVE InsertByScore(_, _)
InsertByScore(sorted, x) ==
    IF sorted = << >> THEN <<x>>
    ELSE IF RatLess(Head(sorted).score, x.score) THEN <<x>> \o sorted
    ELSE <<Head(sorted)>> \o InsertByScore(Tail(sorted), x)
RECURSIVE SortByScore(_)
SortByScore(s) == IF s = << >> THEN << >>
                  ELSE InsertByScore(SortByScore(SubSeq(s, 1, Len(s) - 1)), s[Len(s)])

RECURSIVE FilterReason(_, _)
FilterReason(s, reason) ==
    IF s = << >> THEN << >>
    ELSE (IF Head(s).reason = reason THEN <<Head(s)>> ELSE << >>) \o FilterReason(Tail(s), reason)
RECURSIVE DropSelected(_, _)
DropSelected(s, ids) ==
    IF s = << >> THEN << >>
    ELSE (IF Head(s).question_id \in ids THEN << >> ELSE <<Head(s)>>) \o DropSelected(Tail(s), ids)
QuestionIds(s) == {s[i].question_id : i \in DOMAIN s}

\* ---- distribution controller (selector.py _apply_distribution_control) ---
\* the selection before the final shuffle;
\* DistributionSelectionRefills fills the open slots from every candidate,
\* the selected ones included
DistributionSelectionRefills(scored_questions, quiz_length) ==
    LET pool_weakness == SortByScore(FilterReason(scored_questions, "weakness"))
        pool_new == SortByScore(FilterReason(scored_questions, "new"))
        pool_srs == SortByScore(FilterReason(scored_questions, "srs_due"))
        pool_random == SortByScore(FilterReason(scored_questions, "random_review"))
        target_weakness == (quiz_length * target_weakness_pct) \div 100
        target_new == (quiz_length * target_new_pct) \div 100
        target_srs == (quiz_length * target_srs_pct) \div 100
        target_random == quiz_length - (target_weakness + target_new + target_srs)
        primary == Prefix(pool_weakness, target_weakness) \o Prefix(pool_new, target_new)
                   \o Prefix(pool_srs, target_srs) \o Prefix(pool_random, target_random)
        remaining_slots == quiz_length - Len(primary)
        fallback_pool == SortByScore(pool_weakness \o pool_new \o pool_srs \o pool_random)
    IN IF remaining_slots > 0 THEN primary \o Prefix(fallback_pool, remaining_slots) ELSE primary
DistributionSelection(scored_questions, quiz_length) ==
    LET pool_weakness == SortByScore(FilterReason(scored_questions, "weakness"))
        pool_new == SortByScore(FilterReason(scored_questions, "new"))
        pool_srs == SortByScore(FilterReason(scored_questions, "srs_due"))
        pool_random == SortByScore(FilterReason(scored_questions, "random_review"))
        target_weakness == (quiz_length * target_weakness_pct) \div 100
        target_new == (quiz_length * target_new_pct) \div 100
        target_srs == (quiz_length * target_srs_pct) \div 100
        target_random == quiz_length - (target_weakness + target_new + target_srs)
        primary == Prefix(pool_weakness, target_weakness) \o Prefix(pool_new, target_new)
                   \o Prefix(pool_srs, target_srs) \o Prefix(pool_random, target_random)
        remaining_slots == quiz_length - Len(primary)
        fallback_pool == SortByScore(DropSelected(pool_weakness \o pool_new \o pool_srs \o pool_random,
                                                  QuestionIds(primary)))
    IN IF remaining_slots > 0 THEN primary \o Prefix(fallback_pool, remaining_slots) ELSE primary

\* self.rng of the selector: rng = NULL is a selector built without one, whose
\* random.Random() is seeded afresh and can leave any order; rng = Some(seed)
\* is a random.Random(seed), whose shuffle of a list is fixed by the seed and
\* the length of the list
Seeds == 0..MaxSeed
SeededShuffle(seed, s) == [i \in DOMAIN s |-> s[((i - 1 + seed) % Len(s)) + 1]]
ShuffleWith(rng, s) == IF rng = NULL THEN Shuffles(s) ELSE {SeededShuffle(Val(rng), s)}

\* the lists _apply_distribution_control can return;
\* ApplyDistributionControlUnseeded shuffles the candidates with an rng of
\* its own and then cuts the list to the quiz length
ApplyDistributionControlUnseeded(rng, scored_questions, quiz_length) ==
    {Prefix(s, quiz_length) : s \in Shuffles(scored_questions)}
ApplyDistributionControlWith(rng, scored_questions, quiz_length) ==
    {Prefix(s, quiz_length) : s \in ShuffleWith(rng, DistributionSelection(scored_questions, quiz_length))}
ApplyDistributionControl(scored_questions, quiz_length) ==
    ApplyDistributionControlWith(NULL, scored_questions, quiz_length)

\* select_questions: score every question of the course, sort, distribute;
\* age[q] = days since the user's last attempt of q
SelectScoredWith(rng, scored, quiz_length) ==
    IF quiz_length <= 0 \/ scored = << >> THEN {<< >>}
    ELSE ApplyDistributionControlWith(rng, SortByScore(scored), quiz_length)
SelectScored(scored, quiz_length) == SelectScoredWith(NULL, scored, quiz_length)
SelectQuestions(u, c, quiz_length, age) ==
    LET available == Ascending(CourseQuestions(c))
        scored == [i \in DOMAIN available |->
                      ScoreQuestion(available[i],
                                    IF available[i] \in PerformedQuestions(u, c)
                                    THEN UserPerformance(u, available[i]) ELSE NoPerformance,
                                    IF available[i] \in DOMAIN age THEN age[available[i]] ELSE 0)]
    IN SelectScored(scored, quiz_length)

\* ---- cold start (service.py _handle_new_user) ----------------------------
RECURSIVE FilterIds(_, _)
FilterIds(s, keep) == IF s = << >> THEN << >>
                      ELSE (IF Head(s) \in keep THEN <<Head(s)>> ELSE << >>) \o FilterIds(Tail(s), keep)

\* the division len(scored_questions) / len(all_questions) raises on an empty course
HandleNewUserRaises(c) == CourseQuestions(c) = {}

\* the id lists _handle_new_user can select (course not empty)
\* all_questions = the ids of the course's questions, difficulty[q] = the
\* difficulty_score of question q
HandleNewUserIdsIn(all_questions, difficulty, quiz_length) ==
    LET ids == Range(all_questions)
        scored_questions == FilterIds(all_questions, {q \in ids : difficulty[q] # NULL})
        easy == FilterIds(scored_questions, {q \in ids : difficulty[q] # NULL /\ Val(difficulty[q]) <= band_easy})
        medium == FilterIds(scored_questions, {q \in ids : difficulty[q] # NULL /\ band_easy < Val(difficulty[q])
                                                           /\ Val(difficulty[q]) <= band_medium})
        hard == FilterIds(scored_questions, {q \in ids : difficulty[q] # NULL /\ Val(difficulty[q]) > band_medium})
        easy_count == (quiz_length * 25) \div 100
        hard_count == (quiz_length * 25) \div 100
        medium_count == quiz_length - easy_count - hard_count
        picked == {Prefix(e, easy_count) \o Prefix(m, medium_count) \o Prefix(h, hard_count) :
                      e \in Shuffles(easy), m \in Shuffles(medium), h \in Shuffles(hard)}
        TopUp(sel) == IF Len(sel) < quiz_length
                      THEN {sel \o Prefix(r, quiz_length - Len(sel)) :
                               r \in Shuffles(FilterIds(scored_questions, Range(scored_questions) \ Range(sel)))}
                      ELSE {sel}
        \* len(scored) / len(all) > 0.8
        ramp == IF Len(scored_questions) * 10 > 8 * Len(all_questions)
                THEN UNION {TopUp(sel) : sel \in picked}
                ELSE {<< >>}
        Random(sel) == IF sel = << >>
                       THEN {Prefix(r, quiz_length) : r \in Shuffles(all_questions)}
                       ELSE {sel}
    IN UNION {Random(sel) : sel \in ramp}

HandleNewUserIds(c, quiz_length) == HandleNewUserIdsIn(Ascending(CourseQuestions(c)), difficulty_score, quiz_length)

\* the QuestionScore list built from the selected ids
NewQuestionScores(ids) == [i \in DOMAIN ids |-> [question_id |-> ids[i], score |-> <<50, 1>>, reason |-> "new"]]
HandleNewUser(c, quiz_length) == {NewQuestionScores(ids) : ids \in HandleNewUserIds(c, quiz_length)}

\* ---- skill estimator -----------------------------------------------------
RECURSIVE Gcd(_, _)
Gcd(a, b) == IF b = 0 THEN a ELSE Gcd(b, a % b)
Reduce(r) == LET g == Gcd(Abs(r[1]), r[2]) IN IF g = 0 THEN r ELSE <<r[1] \div g, r[2] \div g>>

\* the course's (min, max) difficulty, (1.0, 5.0) when the course has none
CourseDifficultyRange(c) ==
    IF min_difficulty[c] # NULL THEN <<Val(min_difficulty[c]), Val(max_difficulty[c])>> ELSE <<10, 50>>

\* the most recent first
RECURSIVE ByRecency(_, _)
ByRecency(u, S) == IF S = {} THEN << >>
                   ELSE LET q == CHOOSE x \in S : \A y \in S : LatestIdx(u, y) <= LatestIdx(u, x)
                        IN <<q>> \o ByRecency(u, S \ {q})

\* weight 1 / i of the i-th most recent entry, over 2520
HarmonicWeight(i) == 2520 \div i
RECURSIVE WeightSum(_)
WeightSum(k) == IF k = 0 THEN 0 ELSE HarmonicWeight(k) + WeightSum(k - 1)
\* norm[i]: numerator of the normalized difficulty of the i-th most recent entry
RECURSIVE WeightedSum(_, _)
WeightedSum(norm, k) == IF k = 0 THEN 0 ELSE HarmonicWeight(k) * norm[k] + WeightedSum(norm, k - 1)

\* _estimate_user_skill_level: a rational in [0, 1]
EstimateUserSkillLevel(u, c) ==
    LET performed == PerformedQuestions(u, c)
        relevant == {q \in performed : UserPerformance(u, q).last_attempt_correct /\ difficulty_score[q] # NULL}
        recent == Prefix(ByRecency(u, relevant), 10)
        lo == CourseDifficultyRange(c)[1]
        hi == CourseDifficultyRange(c)[2]
        \* normalized difficulty, as a numerator over 2 * (hi - lo), or over 2 when hi = lo
        span == IF hi = lo THEN 1 ELSE hi - lo
        Norm(q) == IF hi = lo THEN 1
                   ELSE 2 * Min(Max(Val(difficulty_score[q]) - lo, 0), hi - lo)
        norm == [i \in DOMAIN recent |-> Norm(recent[i])]
    IN IF performed = {} THEN <<1, 4>>
       ELSE IF relevant = {} THEN <<1, 10>>
       ELSE Reduce(<<WeightedSum(norm, Len(recent)), 2 * span * WeightSum(Len(recent))>>)

\* ---- get_adaptive_questions ----------------------------------------------
\* raises when the learner has no history and the course has no question
GetAdaptiveQuestionsRaises(u, c) == PerformedQuestions(u, c) = {} /\ HandleNewUserRaises(c)
\* the (selected_questions, user_skill_level) pairs it can return
GetAdaptiveQuestions(u, c, quiz_length, age) ==
    LET selected == IF PerformedQuestions(u, c) = {} THEN HandleNewUser(c, quiz_length)
                    ELSE SelectQuestions(u, c, quiz_length, age)
    IN {<<sel, EstimateUserSkillLevel(u, c)>> : sel \in selected}

\* ---- queries on the roster -----------------------------------------------
Rows(s) == IF s \in DOMAIN quiz_session_questions THEN quiz_session_questions[s] ELSE << >>
CountAnswered(rows) == Cardinality({i \in DOMAIN rows : rows[i].is_answered})
CountCorrect(rows) == Cardinality({i \in DOMAIN rows : rows[i].is_correct = Some(TRUE)})
CountReported(rows) == Cardinality({i \in DOMAIN rows : rows[i].is_reported})

\* get_next_question on the given roster rows: filter, order by order_number,
\* first; NextQuestionUnfiltered leaves the reported questions in
NextQuestionUnfiltered(rows, reported_question_ids) ==
    LET candidates == {i \in DOMAIN rows : ~rows[i].is_answered}
    IN IF candidates = {} THEN NULL
       ELSE LET first == CHOOSE i \in candidates : \A j \in candidates : rows[i].order_number <= rows[j].order_number
            IN Some([id |-> rows[first].question_id, order |-> rows[first].order_number])
NextQuestionIn(rows, reported_question_ids) ==
    LET candidates == {i \in DOMAIN rows : ~rows[i].is_answered /\ rows[i].question_id \notin reported_question_ids}
    IN IF candidates = {} THEN NULL
       ELSE LET first == CHOOSE i \in candidates : \A j \in candidates : rows[i].order_number <= rows[j].order_number
            IN IF rows[first].question_id \notin Questions THEN NULL
               ELSE Some([id |-> rows[first].question_id, order |-> rows[first].order_number])
get_next_question(s, reported_question_ids) == NextQuestionIn(Rows(s), reported_question_ids)

\* _save_session_questions: the roster rows of a new session;
\* SaveSessionQuestionsFromZero numbers them with the index of enumerate
SaveSessionQuestionsFromZero(selected_questions) ==
    [i \in DOMAIN selected_questions |->
        [question_id |-> selected_questions[i].question_id,
         order_number |-> i - 1,
         is_answered |-> FALSE,
         is_correct |-> NULL,
         is_reported |-> FALSE,
         selection_reason |-> selected_questions[i].reason]]
SaveSessionQuestions(selected_questions) ==
    [i \in DOMAIN selected_questions |->
        [question_id |-> selected_questions[i].question_id,
         order_number |-> i,
         is_answered |-> FALSE,
         is_correct |-> NULL,
         is_reported |-> FALSE,
         selection_reason |-> selected_questions[i].reason]]

\* ---- start_quiz ----------------------------------------------------------
InProgressOf(u) == {s \in SessionIds : quiz_sessions[s].user_id = u /\ quiz_sessions[s].status = "in_progress"}
InFlight == {p \in Procs : pc[p] # Idle}
NoCallInFlight == InFlight = {}

\* the messages of the error dictionaries start_quiz and submit_answer return
NotEnoughQuestions == "Not enough questions in the course to start a quiz."
UnexpectedStartError == "An unexpected error occurred while starting the quiz."
InvalidOrCompleted == "Invalid or completed session."
\* the text quiz_length_choice shows when it catches an IntegrityError
OngoingQuiz == "You already have an ongoing quiz. Please complete it or use /cancel to end it."
UnexpectedSubmitError == "An unexpected error occurred while submitting your answer."

\* the validation at the head of start_quiz raises
StartQuizInvalid(u, c, quiz_length) == quiz_length <= 0 \/ u \notin Users \/ c \notin Courses

\* the ongoing session, if the query finds one, is marked incomplete and
\* committed; MarkNoSession leaves it as it is
MarkNoSession(u) == {quiz_sessions}
MarkOngoingIncomplete(u) ==
    IF InProgressOf(u) = {} THEN {quiz_sessions}
    ELSE {[quiz_sessions EXCEPT ![s].status = "incomplete"] : s \in InProgressOf(u)}

\* room left in the model for the session and roster a call may insert
RECURSIVE RowsOf(_)
RowsOf(S) == IF S = {} THEN 0
             ELSE LET s == CHOOSE x \in S : TRUE IN Len(quiz_session_questions[s]) + RowsOf(S \ {s})
RECURSIVE RowsFor(_)
RowsFor(P) == IF P = {} THEN 0
              ELSE LET p == CHOOSE x \in P : TRUE IN pc[p].quiz_length + RowsFor(P \ {p})
Starting == {p \in Procs : pc[p].at = "select"}
StoredRows == RowsOf(SessionIds)
ReservedRows == RowsFor(Starting)
HasRoom(quiz_length) ==
    /\ next_session_id + Cardinality(Starting) <= MaxSessions
    /\ StoredRows + ReservedRows + quiz_length <= MaxRows

\* the first half of start_quiz: validate, mark the ongoing session incomplete, commit
StartQuizBegin(p, u, c, quiz_length) ==
    /\ pc[p] = Idle
    /\ HasRoom(IF c \in Courses /\ quiz_length <= Cardinality(CourseQuestions(c)) THEN Max(quiz_length, 0) ELSE 0)
    /\ IF StartQuizInvalid(u, c, quiz_length)
       THEN UNCHANGED vars
       ELSE /\ quiz_sessions' \in MarkOngoingIncomplete(u)
            /\ pc' = [pc EXCEPT ![p] = [at |-> "select", user_id |-> u, course_id |-> c, quiz_length |-> quiz_length]]
            /\ UNCHANGED <<quiz_session_questions, user_answers, interaction_logs, questions, next_session_id>>

\* what the second half of start_quiz can come to: the dictionary returned
\* and, on success, the session row and the roster it commits;
\* StartQuizResultsWithoutSkillLevel leaves the estimate out of the session row
StartQuizResultsWithoutSkillLevel(u, c, quiz_length) ==
    IF GetAdaptiveQuestionsRaises(u, c)
    THEN {[status |-> "error", message |-> UnexpectedStartError]}
    ELSE {IF Len(res[1]) < quiz_length
          THEN [status |-> "error", message |-> NotEnoughQuestions]
          ELSE [status |-> "success", message |-> "",
                session |-> [user_id |-> u, course_id |-> c, total_questions |-> quiz_length,
                             status |-> "in_progress", completed_at |-> NULL, final_score |-> NULL,
                             initial_user_skill_level |-> NULL],
                roster |-> SaveSessionQuestions(res[1])] :
             res \in UNION {GetAdaptiveQuestions(u, c, quiz_length, age) : age \in [PerformedQuestions(u, c) -> AgeSamples]}}
StartQuizResults(u, c, quiz_length) ==
    IF GetAdaptiveQuestionsRaises(u, c)
    THEN {[status |-> "error", message |-> UnexpectedStartError]}
    ELSE {IF Len(res[1]) < quiz_length
          THEN [status |-> "error", message |-> NotEnoughQuestions]
          ELSE [status |-> "success", message |-> "",
                session |-> [user_id |-> u, course_id |-> c, total_questions |-> quiz_length,
                             status |-> "in_progress", completed_at |-> NULL, final_score |-> NULL,
                             initial_user_skill_level |-> Some(res[2])],
                roster |-> SaveSessionQuestions(res[1])] :
             res \in UNION {GetAdaptiveQuestions(u, c, quiz_length, age) : age \in [PerformedQuestions(u, c) -> AgeSamples]}}

\* the second half of start_quiz: select, insert the session, check the
\* length, save the roster, commit; roll back on a short selection or an exception
StartQuizFinish(p) ==
    /\ pc[p].at = "select"
    /\ pc' = [pc EXCEPT ![p] = Idle]
    /\ \E r \in StartQuizResults(pc[p].user_id, pc[p].course_id, pc[p].quiz_length) :
          IF r.status = "success"
          THEN /\ quiz_sessions' = quiz_sessions @@ (next_session_id :> r.session)
               /\ quiz_session_questions' = quiz_session_questions @@ (next_session_id :> r.roster)
               /\ next_session_id' = next_session_id + 1
               /\ UNCHANGED <<user_answers, interaction_logs, questions>>
          ELSE UNCHANGED db

\* the dictionary a start_quiz call stopped by its validation returns
StartQuizInvalidReturn == [status |-> "error", message |-> UnexpectedStartError]

\* ---- _complete_session ---------------------------------------------------
\* the session row after _complete_session has run on the given roster;
\* CompleteSessionOverTotal divides by total_questions alone
CompleteSessionOverTotal(session, rows) ==
    [session EXCEPT !.status = "completed",
                    !.completed_at = Some("now"),
                    !.final_score = IF session.total_questions > 0
                                    THEN Some(<<CountCorrect(rows) * 100, session.total_questions>>)
                                    ELSE Some(<<0, 1>>)]
CompleteSession(session, rows) ==
    LET correct_count == CountCorrect(rows)
        reported_count == CountReported(rows)
        scorable_questions == session.total_questions - reported_count
    IN [session EXCEPT !.status = "completed",
                       !.completed_at = Some("now"),
                       !.final_score = IF scorable_questions > 0 THEN Some(<<correct_count * 100, scorable_questions>>)
                                       ELSE Some(<<0, 1>>)]

\* ---- submit_answer, skip_question ----------------------------------------
\* Query.update on the roster rows of (session, question);
\* MarkAnsweredWhenCorrect leaves a wrongly answered row unanswered
RowsOfQuestionIn(rows, q) == {i \in DOMAIN rows : rows[i].question_id = q}
MarkAnsweredWhenCorrect(rows, q, is_correct) ==
    [i \in DOMAIN rows |-> IF rows[i].question_id = q
                           THEN [rows[i] EXCEPT !.is_answered = is_correct, !.is_correct = Some(is_correct)]
                           ELSE rows[i]]
MarkAnswered(rows, q, is_correct) ==
    [i \in DOMAIN rows |-> IF rows[i].question_id = q
                           THEN [rows[i] EXCEPT !.is_answered = TRUE, !.is_correct = Some(is_correct)]
                           ELSE rows[i]]

\* _update_user_answer_history: the UserAnswer row added;
\* NewUserAnswerFromLastStreak dates the review from the streak before the
\* increment
NewUserAnswerFromLastStreak(u, q, is_correct) ==
    LET last_streak == IF AnswerIdx(u, q) # {} THEN user_answers[LatestIdx(u, q)].correct_streak ELSE 0
        new_streak == IF is_correct THEN last_streak + 1 ELSE 0
    IN [user_id |-> u, question_id |-> q, is_correct |-> is_correct, correct_streak |-> new_streak,
        next_review_date |-> IF is_correct THEN Some(calculate_next_review_date(last_streak)) ELSE NULL]
NewUserAnswer(u, q, is_correct) ==
    LET last_streak == IF AnswerIdx(u, q) # {} THEN user_answers[LatestIdx(u, q)].correct_streak ELSE 0
        new_streak == IF is_correct THEN last_streak + 1 ELSE 0
    IN [user_id |-> u, question_id |-> q, is_correct |-> is_correct, correct_streak |-> new_streak,
        next_review_date |-> IF is_correct THEN Some(calculate_next_review_date(new_streak)) ELSE NULL]

\* _log_interaction: the InteractionLog row added
NewInteractionLog(s, u, q, is_correct, rows) ==
    LET sq == {i \in DOMAIN rows : rows[i].question_id = q}
        reason == IF sq = {} THEN "" ELSE rows[CHOOSE i \in sq : TRUE].selection_reason
        attempt_count == Cardinality({i \in DOMAIN interaction_logs :
                                          interaction_logs[i].user_id = u /\ interaction_logs[i].question_id = q})
    IN [user_id |-> u, question_id |-> q, session_id |-> s, is_correct |-> is_correct,
        attempt_number |-> attempt_count + 1,
        was_weakness |-> reason = "weakness", was_srs |-> reason = "srs_due", was_new |-> reason = "new",
        is_first_attempt |-> attempt_count = 0]

\* the session check at the head of submit_answer; SubmitRejectsMissing
\* looks for the session row alone
SubmitRejectsMissing(s) == s \notin SessionIds
SubmitRejects(s) == s \notin SessionIds \/ quiz_sessions[s].status # "in_progress"

\* is_correct of submit_answer
IsCorrect(q, user_answer) == StripLower(user_answer) = StripLower(correct_answer[q])

\* the dictionary submit_answer returns, by its status and message
SubmitReturn(s, q) ==
    IF SubmitRejects(s) THEN [status |-> "error", message |-> InvalidOrCompleted]
    ELSE IF q \notin Questions THEN [status |-> "error", message |-> UnexpectedSubmitError]
    ELSE [status |-> "success", message |-> ""]

\* the tables as they are stored
Stored == [quiz_sessions |-> quiz_sessions, quiz_session_questions |-> quiz_session_questions,
           user_answers |-> user_answers, interaction_logs |-> interaction_logs, questions |-> questions]

\* the tables after submit_answer(s, q, user_answer) has returned
Submitted(s, q, user_answer) ==
    IF SubmitRejects(s) \/ q \notin Questions
    THEN Stored
    ELSE LET session == quiz_sessions[s]
             is_correct == IsCorrect(q, user_answer)
             rows == MarkAnswered(quiz_session_questions[s], q, is_correct)
             next_question == NextQuestionIn(rows, {})
         IN [quiz_session_questions |-> [quiz_session_questions EXCEPT ![s] = rows],
             user_answers |-> Append(user_answers, NewUserAnswer(session.user_id, q, is_correct)),
             questions |-> [questions EXCEPT ![q].total_attempts = @ + 1,
                                             ![q].total_incorrect = IF is_correct THEN @ ELSE @ + 1],
             interaction_logs |-> Append(interaction_logs, NewInteractionLog(s, session.user_id, q, is_correct, rows)),
             quiz_sessions |-> IF next_question = NULL
                               THEN [quiz_sessions EXCEPT ![s] = CompleteSession(session, rows)]
                               ELSE quiz_sessions]

\* submit_answer; skip_question is submit_answer with the answer "skipped";
\* an answer is recorded while the model has room for it
Submit(s, q, user_answer) ==
    /\ SubmitReturn(s, q).status = "success" => Len(user_answers) < MaxSubmits
    /\ quiz_sessions' = Submitted(s, q, user_answer).quiz_sessions
    /\ quiz_session_questions' = Submitted(s, q, user_answer).quiz_session_questions
    /\ user_answers' = Submitted(s, q, user_answer).user_answers
    /\ interaction_logs' = Submitted(s, q, user_answer).interaction_logs
    /\ questions' = Submitted(s, q, user_answer).questions
    /\ UNCHANGED <<next_session_id, pc>>

SubmitAnswer(s, q, user_answer) == Submit(s, q, user_answer)
SkipQuestion(s, q) == Submit(s, q, Skipped)

\* ---- submit_answer of overlapping callers --------------------------------
\* a submit_answer call between its reads and its commit: the rows it has
\* built from what it read are in its own transaction, unseen by other callers
Submitting == {p \in Procs : pc[p].at = "log"}

\* the UPDATE of the roster rows of (session, question) holds their row locks
\* until the commit; a second UPDATE of the same rows waits for it
RowsLocked(s, q) ==
    /\ RowsOfQuestionIn(Rows(s), q) # {}
    /\ \E p \in Submitting : pc[p].session_id = s /\ pc[p].question_id = q

\* the first half of submit_answer: the session and question checks, the
\* UPDATE of the roster rows, the latest UserAnswer, the question's counters
\* and the count of InteractionLog rows are read and the new rows are built
SubmitAnswerBegin(p, s, q, user_answer) ==
    /\ pc[p] = Idle
    /\ IF SubmitRejects(s) \/ q \notin Questions
       THEN UNCHANGED vars
       ELSE LET session == quiz_sessions[s]
                is_correct == IsCorrect(q, user_answer)
                rows == MarkAnswered(quiz_session_questions[s], q, is_correct)
            IN /\ ~RowsLocked(s, q)
               /\ Len(user_answers) + Cardinality(Submitting) < MaxSubmits
               /\ pc' = [pc EXCEPT ![p] =
                           [at |-> "log", session_id |-> s, question_id |-> q, is_correct |-> is_correct,
                            user_answer |-> NewUserAnswer(session.user_id, q, is_correct),
                            question |-> [questions[q] EXCEPT !.total_attempts = @ + 1,
                                                             !.total_incorrect = IF is_correct THEN @ ELSE @ + 1],
                            interaction_log |-> NewInteractionLog(s, session.user_id, q, is_correct, rows)]]
               /\ UNCHANGED db

\* the second half of submit_answer: get_next_question, _complete_session
\* when no question is left, and the commit of everything the call wrote
SubmitAnswerFinish(p) ==
    /\ pc[p].at = "log"
    /\ LET s == pc[p].session_id
           q == pc[p].question_id
           rows == MarkAnswered(quiz_session_questions[s], q, pc[p].is_correct)
           next_question == NextQuestionIn(rows, {})
       IN /\ quiz_session_questions' = [quiz_session_questions EXCEPT ![s] = rows]
          /\ user_answers' = Append(user_answers, pc[p].user_answer)
          /\ questions' = [questions EXCEPT ![q] = pc[p].question]
          /\ interaction_logs' = Append(interaction_logs, pc[p].interaction_log)
          /\ quiz_sessions' = IF next_question = NULL
                              THEN [quiz_sessions EXCEPT ![s] = CompleteSession(quiz_sessions[s], rows)]
                              ELSE quiz_sessions
    /\ pc' = [pc EXCEPT ![p] = Idle]
    /\ UNCHANGED next_session_id

\* ---- get_next_question as a call -----------------------------------------
\* reads only; what it returns is get_next_question(s, reported_question_ids)
GetNextQuestion(s, reported_question_ids) ==
    /\ get_next_question(s, reported_question_ids) \in {NULL} \cup {Some([id |-> q, order |-> o]) : q \in Questions, o \in 1..MaxLen}
    /\ UNCHANGED vars

\* ---- end_quiz_early ------------------------------------------------------
EndQuizEarlyRejects(s) == s \notin SessionIds \/ quiz_sessions[s].status # "in_progress"

\* the tuple (correct_answers, scorable_questions) end_quiz_early returns
EndQuizEarlyReturn(s) ==
    IF EndQuizEarlyRejects(s) THEN <<0, 0>>
    ELSE <<CountCorrect(Rows(s)), CountAnswered(Rows(s)) - CountReported(Rows(s))>>

EndQuizEarly(s) ==
    IF EndQuizEarlyRejects(s)
    THEN UNCHANGED vars
    ELSE LET correct_answers == EndQuizEarlyReturn(s)[1]
             scorable_questions == EndQuizEarlyReturn(s)[2]
         IN /\ quiz_sessions' = [quiz_sessions EXCEPT
                    ![s].completed_at = Some("now"),
                    ![s].status = "incomplete",
                    ![s].final_score = IF scorable_questions > 0 THEN Some(<<correct_answers * 100, scorable_questions>>)
                                       ELSE Some(<<0, 1>>)]
            /\ UNCHANGED <<quiz_session_questions, user_answers, interaction_logs, questions, next_session_id, pc>>

\* ---- cancel_quiz_session -------------------------------------------------
\* QuizSession.interaction_logs has no delete cascade and
\* interaction_logs.session_id is NOT NULL: deleting a session that a log row
\* refers to fails at the flush, and the call rolls back
DeleteSessionRaises(s) == \E i \in DOMAIN interaction_logs : interaction_logs[i].session_id = s
Without(f, s) == [x \in DOMAIN f \ {s} |-> f[x]]

\* the string cancel_quiz_session returns
CancelQuizSessionReturn(s) ==
    IF s \notin SessionIds THEN "NOT_FOUND"
    ELSE IF CountAnswered(Rows(s)) = 0
    THEN IF DeleteSessionRaises(s) THEN "ERROR" ELSE "DELETED"
    ELSE "SCORED"

\* the quiz_sessions and quiz_session_questions tables after the call
CancelledSessions(s) ==
    CASE CancelQuizSessionReturn(s) = "DELETED" -> Without(quiz_sessions, s)
      [] CancelQuizSessionReturn(s) = "SCORED" ->
            LET correct_answers == CountCorrect(Rows(s))
                answered_count == CountAnswered(Rows(s))
            IN [quiz_sessions EXCEPT
                   ![s].completed_at = Some("now"),
                   ![s].status = "cancelled",
                   ![s].final_score = IF answered_count > 0 THEN Some(<<correct_answers * 100, answered_count>>)
                                      ELSE Some(<<0, 1>>)]
      [] OTHER -> quiz_sessions
CancelledRosters(s) ==
    IF CancelQuizSessionReturn(s) = "DELETED" THEN Without(quiz_session_questions, s)
    ELSE quiz_session_questions

CancelQuizSession(s) ==
    /\ quiz_sessions' = CancelledSessions(s)
    /\ quiz_session_questions' = CancelledRosters(s)
    /\ UNCHANGED <<user_answers, interaction_logs, questions, next_session_id, pc>>

\* ---- handlers that write to the same tables ------------------------------
\* submit_report: mark the roster row of (session, question) reported, commit;
\* the handler is reachable only while the conversation is in the quiz, and
\* the session is the one the conversation is playing
ReportedRows == Cardinality({<<s, i>> \in SessionIds \X (1..MaxLen) :
                                i \in DOMAIN quiz_session_questions[s] /\ quiz_session_questions[s][i].is_reported})
SubmitReport(s, q) ==
    /\ s \in SessionIds
    /\ quiz_sessions[s].status = "in_progress"
    /\ ReportedRows < MaxReports
    /\ quiz_session_questions' = [quiz_session_questions EXCEPT ![s] =
           [i \in DOMAIN @ |-> IF @[i].question_id = q THEN [@[i] EXCEPT !.is_reported = TRUE] ELSE @[i]]]
    /\ UNCHANGED <<quiz_sessions, user_answers, interaction_logs, questions, next_session_id, pc>>

\* clear_all_active_sessions_for_update: every session in progress is marked
\* incomplete and the change is committed; without one the call returns early
ClearAllActiveSessionsForUpdate ==
    /\ \E s \in SessionIds : quiz_sessions[s].status = "in_progress"
    /\ quiz_sessions' = [s \in DOMAIN quiz_sessions |->
                            IF quiz_sessions[s].status = "in_progress"
                            THEN [quiz_sessions[s] EXCEPT !.status = "incomplete"]
                            ELSE quiz_sessions[s]]
    /\ UNCHANGED <<quiz_session_questions, user_answers, interaction_logs, questions, next_session_id, pc>>

\* complete_quiz_session: _complete_session changes the loaded session object,
\* db.refresh(session) then reloads it from the database (autoflush is off and
\* nothing was flushed), and the caller closes the database session without a
\* commit: the row the call returns and the row it leaves are the stored one
CompleteQuizSessionReturn(s) == quiz_sessions[s]
CompleteQuizSession(s) ==
    /\ s \in SessionIds
    /\ UNCHANGED vars

\* ---- specifications ------------------------------------------------------
SessionInputs == 1..MaxSessions
QuestionInputs == Questions \cup {NoQuestion}

\* every call runs to completion before the next one begins
Next ==
    \/ \E in \in StartInputs : NoCallInFlight /\ StartQuizBegin(1, in[1], in[2], in[3])
    \/ \E p \in Procs : StartQuizFinish(p)
    \/ \E s \in SessionInputs, q \in QuestionInputs, a \in Answers : NoCallInFlight /\ SubmitAnswer(s, q, a)
    \/ \E s \in SessionInputs, q \in QuestionInputs : NoCallInFlight /\ SkipQuestion(s, q)
    \/ \E s \in SessionInputs, excl \in SUBSET Questions : NoCallInFlight /\ GetNextQuestion(s, excl)
    \/ \E s \in SessionInputs : NoCallInFlight /\ EndQuizEarly(s)
    \/ \E s \in SessionInputs : NoCallInFlight /\ CancelQuizSession(s)
    \/ \E s \in SessionInputs, q \in Questions : NoCallInFlight /\ SubmitReport(s, q)
    \/ \E s \in SessionInputs : NoCallInFlight /\ CompleteQuizSession(s)
    \/ NoCallInFlight /\ ClearAllActiveSessionsForUpdate

Spec == Init /\ [][Next]_vars

\* start_quiz calls of different callers may overlap, with each other and
\* with the calls that answer, end and cancel a session
NextOverlap ==
    \/ \E p \in Procs, in \in StartInputs : StartQuizBegin(p, in[1], in[2], in[3])
    \/ \E p \in Procs : StartQuizFinish(p)
    \/ \E s \in SessionInputs, q \in QuestionInputs, a \in Answers : SubmitAnswer(s, q, a)
    \/ \E s \in SessionInputs : EndQuizEarly(s)
    \/ \E s \in SessionInputs : CancelQuizSession(s)

SpecOverlap == Init /\ [][NextOverlap]_vars

\* submit_answer calls of different callers may overlap with each other;
\* sessions are started one call at a time
NextSubmitOverlap ==
    \/ \E in \in StartInputs : NoCallInFlight /\ StartQuizBegin(1, in[1], in[2], in[3])
    \/ \E p \in Procs : StartQuizFinish(p)
    \/ \E p \in Procs, s \in SessionInputs, q \in QuestionInputs, a \in Answers : SubmitAnswerBegin(p, s, q, a)
    \/ \E p \in Procs : SubmitAnswerFinish(p)

SpecSubmitOverlap == Init /\ [][NextSubmitOverlap]_vars

\* two learners have each started a quiz in course 1 and answer at the same
\* time: the sessions and rosters are the ones their start_quiz calls stored
InitTwoLearners ==
    /\ user_answers = << >>
    /\ interaction_logs = << >>
    /\ questions = [q \in Questions |-> [total_attempts |-> 0, total_incorrect |-> 0]]
    /\ next_session_id = 3
    /\ pc = [p \in Procs |-> Idle]
    /\ \E n1, n2 \in 1..MaxRows :
          \E r1 \in StartQuizResults(1, 1, n1), r2 \in StartQuizResults(2, 1, n2) :
              /\ r1.status = "success" /\ r2.status = "success"
              /\ quiz_sessions = <<r1.session, r2.session>>
              /\ quiz_session_questions = <<r1.roster, r2.roster>>

NextTwoLearners ==
    \/ \E p \in Procs, s \in SessionInputs, q \in QuestionInputs, a \in Answers : SubmitAnswerBegin(p, s, q, a)
    \/ \E p \in Procs : SubmitAnswerFinish(p)

SpecTwoLearners == InitTwoLearners /\ [][NextTwoLearners]_vars

\* ---- the quiz conversation ------------------------------------------------
\* each learner's conversation drives the session it started: ask_question
\* calls get_next_question without reported questions; the poll answer or the
\* skip button or the poll timeout submits the question asked, and the
\* handler asks again; with no question left the conversation ends
Asking(s, n) == [at |-> "ask", session_id |-> s, submissions |-> n]
Answering(s, q, n) == [at |-> "answer", session_id |-> s, question_id |-> q, submissions |-> n]
Ended(s, n) == [at |-> "end", session_id |-> s, submissions |-> n]

InitConversation ==
    /\ user_answers = << >>
    /\ interaction_logs = << >>
    /\ questions = [q \in Questions |-> [total_attempts |-> 0, total_incorrect |-> 0]]
    /\ next_session_id = 3
    /\ pc = [p \in Procs |-> Asking(p, 0)]
    /\ \E n1, n2 \in 1..MaxRows :
          \E r1 \in StartQuizResults(1, 1, n1), r2 \in StartQuizResults(2, 1, n2) :
              /\ r1.status = "success" /\ r2.status = "success"
              /\ quiz_sessions = <<r1.session, r2.session>>
              /\ quiz_session_questions = <<r1.roster, r2.roster>>

AskQuestion(p) ==
    /\ pc[p].at = "ask"
    /\ LET next_question == get_next_question(pc[p].session_id, {})
       IN pc' = [pc EXCEPT ![p] = IF next_question = NULL
                                  THEN Ended(pc[p].session_id, pc[p].submissions)
                                  ELSE Answering(pc[p].session_id, Val(next_question).id, pc[p].submissions)]
    /\ UNCHANGED db

\* submit_answer or skip_question for the question asked; the conversation
\* counts its submissions, up to MaxLen
AnswerAsked(p, user_answer) ==
    /\ pc[p].at = "answer"
    /\ pc[p].submissions < MaxLen
    /\ LET after == Submitted(pc[p].session_id, pc[p].question_id, user_answer)
       IN /\ quiz_sessions' = after.quiz_sessions
          /\ quiz_session_questions' = after.quiz_session_questions
          /\ user_answers' = after.user_answers
          /\ interaction_logs' = after.interaction_logs
          /\ questions' = after.questions
    /\ pc' = [pc EXCEPT ![p] = Asking(pc[p].session_id, pc[p].submissions + 1)]
    /\ UNCHANGED next_session_id
\* handle_poll_answer while the poll of the question asked is open
HandlePollAnswer(p) ==
    /\ pc[p].at = "answer"
    /\ \E a \in Answers : AnswerAsked(p, a)
\* skip_question_callback and poll_timeout_callback: skip_question
SkipQuestionCallback(p) ==
    /\ pc[p].at = "answer"
    /\ AnswerAsked(p, Skipped)

ConversationStep(p) == AskQuestion(p) \/ HandlePollAnswer(p) \/ SkipQuestionCallback(p)
NextConversation ==
    \/ \E p \in Procs : AskQuestion(p)
    \/ \E p \in Procs : HandlePollAnswer(p)
    \/ \E p \in Procs : SkipQuestionCallback(p)

\* a question asked is answered, skipped, or skipped by the poll timeout job
\* ask_question schedules, and every handler that submits asks again
SpecConversation == InitConversation /\ [][NextConversation]_vars /\ \A p \in Procs : WF_vars(ConversationStep(p))

\* ---- the selection on drawn inputs ----------------------------------------
\* a course of a learner without history: k = <<unscored, easy, medium, hard>>
\* counts of its questions; the ids are 1..n in that order
Catalogues == {k \in (0..MaxCatalogue) \X (0..MaxCatalogue) \X (0..MaxCatalogue) \X (0..MaxCatalogue) :
                  k[1] + k[2] + k[3] + k[4] \in 1..MaxCatalogue}
CatalogueDifficulty(k) ==
    [q \in 1..(k[1] + k[2] + k[3] + k[4]) |->
        IF q <= k[1] THEN NULL
        ELSE IF q <= k[1] + k[2] THEN Some(10)
        ELSE IF q <= k[1] + k[2] + k[3] THEN Some(20)
        ELSE Some(40)]
NewLearnerInputs ==
    {[at |-> "call", fn |-> "start_quiz", difficulty |-> CatalogueDifficulty(k), quiz_length |-> n] :
        k \in Catalogues, n \in 1..MaxCatalogue}

\* start_quiz for a learner without history in a course that is not empty:
\* _handle_new_user, the length check, _save_session_questions
StartNewLearner(p) ==
    /\ pc[p].at = "call" /\ pc[p].fn = "start_quiz"
    /\ \E ids \in HandleNewUserIdsIn([q \in DOMAIN pc[p].difficulty |-> q], pc[p].difficulty, pc[p].quiz_length) :
          pc' = [pc EXCEPT ![p] =
                    IF Len(ids) < pc[p].quiz_length
                    THEN [at |-> "return", fn |-> "start_quiz", difficulty |-> pc[p].difficulty,
                          quiz_length |-> pc[p].quiz_length, selected_ids |-> ids,
                          status |-> "error", message |-> NotEnoughQuestions, roster |-> << >>]
                    ELSE [at |-> "return", fn |-> "start_quiz", difficulty |-> pc[p].difficulty,
                          quiz_length |-> pc[p].quiz_length, selected_ids |-> ids,
                          status |-> "success", message |-> "", roster |-> SaveSessionQuestions(NewQuestionScores(ids))]]
    /\ UNCHANGED db

\* a learner's candidates: k = <<weakness, new, srs due, random review>>
\* counts; the ids are 1..n in that order, and the UserPerformance and the
\* days since the last attempt of a candidate alternate with its id
PoolSizes == {0, 1, 2, MaxQuiz}
QuizLengths == {1, 2, 3, MaxQuiz - 1, MaxQuiz}
PoolSize(k) == k[1] + k[2] + k[3] + k[4]
SamplePerformance(k, q) ==
    IF q <= k[1]
    THEN [question_id |-> q, correct_streak |-> 0, last_attempt_correct |-> FALSE, last_attempt_idx |-> q,
          total_attempts |-> IF q % 2 = 1 THEN 1 ELSE 4, total_correct |-> IF q % 2 = 1 THEN 0 ELSE 1,
          next_review_date |-> NULL, difficulty_score |-> NULL]
    ELSE IF q <= k[1] + k[2] THEN NoPerformance
    ELSE IF q <= k[1] + k[2] + k[3]
    THEN [question_id |-> q, correct_streak |-> 1, last_attempt_correct |-> TRUE, last_attempt_idx |-> q,
          total_attempts |-> 1, total_correct |-> 1, next_review_date |-> Some(3), difficulty_score |-> NULL]
    ELSE [question_id |-> q, correct_streak |-> 2, last_attempt_correct |-> TRUE, last_attempt_idx |-> q,
          total_attempts |-> 2, total_correct |-> 2, next_review_date |-> Some(7), difficulty_score |-> NULL]
SampleAge(k, q) ==
    IF q <= k[1] + k[2] THEN 0
    ELSE IF q <= k[1] + k[2] + k[3] THEN (IF q % 2 = 1 THEN 5 ELSE 30)
    ELSE (IF q % 2 = 1 THEN 0 ELSE 2)
SamplePool(k) == [q \in 1..PoolSize(k) |-> ScoreQuestion(q, SamplePerformance(k, q), SampleAge(k, q))]
SelectorInputs ==
    {[at |-> "call", fn |-> "select_questions", rng |-> r, pool |-> k, quiz_length |-> n] :
        r \in {NULL} \cup {Some(seed) : seed \in Seeds},
        k \in PoolSizes \X PoolSizes \X PoolSizes \X PoolSizes, n \in QuizLengths}

\* select_questions on the candidates of the call
SelectQuestionsCall(p) ==
    /\ pc[p].at = "call" /\ pc[p].fn = "select_questions"
    /\ \E selected \in SelectScoredWith(pc[p].rng, SamplePool(pc[p].pool), pc[p].quiz_length) :
          pc' = [pc EXCEPT ![p] = [at |-> "return", fn |-> "select_questions", rng |-> pc[p].rng, pool |-> pc[p].pool,
                                   quiz_length |-> pc[p].quiz_length, selected |-> selected]]
    /\ UNCHANGED db

\* calculate_next_review_date on a drawn streak
ReviewInputs == {[at |-> "call", fn |-> "calculate_next_review_date", correct_streak |-> n] : n \in (0 - 2)..MaxStreak}
NextReviewDateCall(p) ==
    /\ pc[p].at = "call" /\ pc[p].fn = "calculate_next_review_date"
    /\ pc' = [pc EXCEPT ![p] = [at |-> "return", fn |-> "calculate_next_review_date",
                                correct_streak |-> pc[p].correct_streak,
                                interval_days |-> calculate_next_review_date(pc[p].correct_streak)]]
    /\ UNCHANGED db

\* _score_question on a drawn UserPerformance: the counts may be the corrupt
\* ones the scorer guards against, and the clock has moved elapsed ticks
\* since the last attempt
SamplePerformances ==
    {[question_id |-> 1, correct_streak |-> IF c THEN 1 ELSE 0, last_attempt_correct |-> c, last_attempt_idx |-> 1,
      total_attempts |-> ta, total_correct |-> tc, next_review_date |-> d, difficulty_score |-> NULL] :
        c \in BOOLEAN, ta \in 0..MaxAttempts, tc \in 0..(MaxAttempts + 1), d \in {NULL, Some(1), Some(3)}}
ScoreInputs ==
    {[at |-> "call", fn |-> "_score_question", performance |-> perf, elapsed |-> e] :
        perf \in SamplePerformances \cup {NoPerformance}, e \in 0..MaxElapsed}
ScoreQuestionCall(p) ==
    /\ pc[p].at = "call" /\ pc[p].fn = "_score_question"
    /\ pc' = [pc EXCEPT ![p] = [at |-> "return", fn |-> "_score_question",
                                performance |-> pc[p].performance, elapsed |-> pc[p].elapsed,
                                scored |-> ScoreQuestionAt(1, pc[p].performance, pc[p].elapsed)]]
    /\ UNCHANGED db

SelectionInputs == NewLearnerInputs \cup SelectorInputs \cup ReviewInputs \cup ScoreInputs

InitSelection ==
    /\ quiz_sessions = << >>
    /\ quiz_session_questions = << >>
    /\ user_answers = << >>
    /\ interaction_logs = << >>
    /\ questions = [q \in Questions |-> [total_attempts |-> 0, total_incorrect |-> 0]]
    /\ next_session_id = 1
    /\ \E in \in SelectionInputs : pc = [p \in Procs |-> IF p = 1 THEN in ELSE Idle]

NextSelection ==
    \/ \E p \in Procs : StartNewLearner(p)
    \/ \E p \in Procs : SelectQuestionsCall(p)
    \/ \E p \in Procs : NextReviewDateCall(p)
    \/ \E p \in Procs : ScoreQuestionCall(p)

SpecSelection == InitSelection /\ [][NextSelection]_vars

\* ---- properties ----------------------------------------------------------
Terminal == {"completed", "incomplete", "cancelled"}
RowsOfQuestion(s, q) == {i \in DOMAIN Rows(s) : Rows(s)[i].question_id = q}

\* C1: in every state reached by running the calls one at a time, each user
\* has at most one session whose status is in_progress
C1_OneInProgressPerUser == \A u \in Users : Cardinality(InProgressOf(u)) <= 1

\* a user's second session is in progress and the first was marked incomplete
\* by the start of the second
C1_SecondStartSupersedes ==
    \E s1, s2 \in SessionIds :
        /\ s1 < s2
        /\ quiz_sessions[s1].user_id = quiz_sessions[s2].user_id
        /\ quiz_sessions[s1].status = "incomplete" /\ quiz_sessions[s1].completed_at = NULL
        /\ quiz_sessions[s2].status = "in_progress"

\* C2: when two start_quiz calls of one user overlap, at most one in_progress
\* session of that user exists once no call is in flight
C2_OverlapOneInProgress == NoCallInFlight => \A u \in Users : Cardinality(InProgressOf(u)) <= 1

\* C3: once the status of a session is completed, incomplete or cancelled, no
\* step changes the status or deletes the session
C3_TerminalIsFinal ==
    [][\A s \in SessionIds :
          quiz_sessions[s].status \in Terminal
              => s \in DOMAIN quiz_sessions' /\ quiz_sessions'[s].status = quiz_sessions[s].status]_vars

\* C4: a start_quiz call that asks for more questions than the course has
\* returns the not-enough-questions error and leaves no session row and no
\* roster row of its own
C4_InsufficientQuestions ==
    [][\A p \in Procs :
          (StartQuizFinish(p) /\ pc[p].quiz_length > Cardinality(CourseQuestions(pc[p].course_id)))
              => /\ \A r \in StartQuizResults(pc[p].user_id, pc[p].course_id, pc[p].quiz_length) :
                        r.status = "error" /\ r.message = NotEnoughQuestions
                 /\ UNCHANGED <<quiz_sessions, quiz_session_questions>>]_vars

\* C5: submit_answer on a session that is not in_progress returns an error
\* and leaves every table as it was: the session rows, the roster rows, the
\* UserAnswer and InteractionLog rows and the counters of the questions
C5_RejectedSubmitChangesNothing ==
    \A s \in SessionIds, q \in QuestionInputs, a \in Answers :
        quiz_sessions[s].status # "in_progress"
            => SubmitReturn(s, q).status = "error" /\ Submitted(s, q, a) = Stored

\* a finished session holds a question in its roster, the model has room for
\* one more answer, and submit_answer for that question returns the error
C5_SubmitOnFinishedSession ==
    \E s \in SessionIds, q \in Questions :
        /\ quiz_sessions[s].status \in Terminal
        /\ RowsOfQuestion(s, q) # {}
        /\ Len(user_answers) < MaxSubmits
        /\ SubmitReturn(s, q) = [status |-> "error", message |-> InvalidOrCompleted]

\* C6: a submit_answer or skip_question for a roster entry that is already
\* answered changes no roster row and appends no UserAnswer and no
\* InteractionLog row
C6_AnsweredAtMostOnce ==
    [][\A s \in SessionIds, q \in Questions, a \in Answers \cup {Skipped} :
          ((\E i \in RowsOfQuestion(s, q) : Rows(s)[i].is_answered) /\ Submit(s, q, a))
              => UNCHANGED <<quiz_session_questions, user_answers, interaction_logs>>]_vars

\* C7: get_next_question returns the entry of smallest order_number among the
\* session's entries that are unanswered and whose question is not excluded,
\* and returns null exactly when there is no such entry
C7_NextQuestionIsLowestOpen ==
    \A s \in SessionInputs, excludeIds \in SUBSET Questions :
        LET open == {i \in DOMAIN Rows(s) : ~Rows(s)[i].is_answered /\ Rows(s)[i].question_id \notin excludeIds}
            got == get_next_question(s, excludeIds)
        IN IF open = {} THEN got = NULL
           ELSE /\ got # NULL
                /\ \E i \in open :
                      /\ Val(got) = [id |-> Rows(s)[i].question_id, order |-> Rows(s)[i].order_number]
                      /\ \A j \in open : Rows(s)[i].order_number <= Rows(s)[j].order_number

\* the first entry of a session is unanswered and reported, the second is
\* unanswered: with the reported question excluded the call returns the second
C7_SkipsExcluded ==
    \E s \in SessionIds :
        /\ Len(Rows(s)) = 2
        /\ ~Rows(s)[1].is_answered /\ Rows(s)[1].is_reported /\ ~Rows(s)[2].is_answered
        /\ get_next_question(s, {Rows(s)[1].question_id}) = Some([id |-> Rows(s)[2].question_id, order |-> 2])

\* the score _complete_session is to store: correct entries over the entries
\* not reported, 0 when there is none
ScoreOverUnreported(total_questions, rows) ==
    IF total_questions - CountReported(rows) > 0
    THEN <<CountCorrect(rows) * 100, total_questions - CountReported(rows)>>
    ELSE <<0, 1>>

\* C8: a submit_answer that leaves no unanswered roster entry sets the status
\* to completed and final_score to correct / (total - reported) * 100, or 0
\* when total - reported is not positive; one that leaves an unanswered
\* entry leaves the status in_progress
C8_LastAnswerCompletes ==
    \A s \in SessionIds, q \in Questions, a \in Answers :
        quiz_sessions[s].status = "in_progress"
            => LET rows == Submitted(s, q, a).quiz_session_questions[s]
                   after == Submitted(s, q, a).quiz_sessions[s]
               IN IF \A i \in DOMAIN rows : rows[i].is_answered
                  THEN /\ after.status = "completed"
                       /\ after.final_score # NULL
                       /\ RatEq(Val(after.final_score), ScoreOverUnreported(after.total_questions, rows))
                  ELSE after.status = "in_progress"

\* a session of two questions, one of them reported, was completed by its
\* last answer with one correct entry: the score is 1 / (2 - 1) * 100
C8_CompletedWithReport ==
    \E s \in SessionIds :
        /\ quiz_sessions[s].status = "completed"
        /\ quiz_sessions[s].total_questions = 2
        /\ CountReported(Rows(s)) = 1 /\ CountCorrect(Rows(s)) = 1 /\ CountAnswered(Rows(s)) = 2
        /\ quiz_sessions[s].final_score # NULL
        /\ RatEq(Val(quiz_sessions[s].final_score), <<100, 1>>)

\* C9: cancel_quiz_session on a session with no answered entry deletes the
\* session row and its roster rows; on a session with an answered entry it
\* keeps them, sets the status to cancelled and final_score to
\* correct / answered * 100
C9_CancelDeletesOrScores ==
    \A s \in SessionIds :
        IF CountAnswered(Rows(s)) = 0
        THEN s \notin DOMAIN CancelledSessions(s) /\ s \notin DOMAIN CancelledRosters(s)
        ELSE /\ s \in DOMAIN CancelledSessions(s) /\ s \in DOMAIN CancelledRosters(s)
             /\ CancelledRosters(s)[s] = Rows(s)
             /\ CancelledSessions(s)[s].status = "cancelled"
             /\ CancelledSessions(s)[s].final_score # NULL
             /\ RatEq(Val(CancelledSessions(s)[s].final_score), <<CountCorrect(Rows(s)) * 100, CountAnswered(Rows(s))>>)

\* C10: end_quiz_early on an in_progress session sets the status to
\* incomplete and final_score to the percentage of correct entries among the
\* entries that are answered and not reported, 0 when there is no such entry
C10_EndEarlyScoresAnsweredUnreported ==
    [][\A s \in SessionIds :
          (quiz_sessions[s].status = "in_progress" /\ EndQuizEarly(s))
              => LET scored == {i \in DOMAIN Rows(s) : Rows(s)[i].is_answered /\ ~Rows(s)[i].is_reported}
                     correct == {i \in scored : Rows(s)[i].is_correct = Some(TRUE)}
                     after == quiz_sessions'[s]
                 IN /\ after.status = "incomplete"
                    /\ after.final_score # NULL
                    /\ RatEq(Val(after.final_score),
                             IF scored = {} THEN <<0, 1>>
                             ELSE <<Cardinality(correct) * 100, Cardinality(scored)>>)]_vars

\* C11: every UserAnswer row has streak 0 and no review date when it is
\* incorrect; when it is correct its streak is one more than the streak of the
\* most recent earlier row of the same user and question (0 when there is
\* none) and its review date is now plus the interval at index
\* min(streak, last index), taken with the streak after the increment
EarlierAnswers(i) == {j \in 1..(i - 1) : /\ user_answers[j].user_id = user_answers[i].user_id
                                         /\ user_answers[j].question_id = user_answers[i].question_id}
PreviousStreak(i) ==
    IF EarlierAnswers(i) = {} THEN 0
    ELSE user_answers[CHOOSE j \in EarlierAnswers(i) : \A k \in EarlierAnswers(i) : k <= j].correct_streak
C11_StreakAndReviewDate ==
    \A i \in DOMAIN user_answers :
        LET a == user_answers[i]
        IN IF a.is_correct
           THEN /\ a.correct_streak = PreviousStreak(i) + 1
                /\ a.next_review_date = Some(srs_intervals[Min(a.correct_streak, Len(srs_intervals) - 1) + 1])
           ELSE a.correct_streak = 0 /\ a.next_review_date = NULL

\* a second correct answer in a row is stored with streak 2, due in 7 days,
\* and an incorrect answer after a correct one is stored with streak 0
C11_SecondCorrectInARow ==
    \E i \in DOMAIN user_answers :
        /\ user_answers[i].is_correct
        /\ user_answers[i].correct_streak = 2
        /\ user_answers[i].next_review_date = Some(7)

\* C12: in every stored session with N roster rows the order numbers of the
\* rows are exactly 1..N, each carried by exactly one row
OrderNumbers(s) == {Rows(s)[i].order_number : i \in DOMAIN Rows(s)}
C12_OrderNumbersDense ==
    \A s \in SessionIds :
        /\ OrderNumbers(s) = 1..Len(Rows(s))
        /\ \A k \in 1..Len(Rows(s)) : Cardinality({i \in DOMAIN Rows(s) : Rows(s)[i].order_number = k}) = 1

\* a session is stored whose two roster rows, one of them answered, carry
\* the order numbers 1 and 2
C12_TwoRowRoster ==
    \E s \in SessionIds :
        /\ Len(Rows(s)) = 2
        /\ OrderNumbers(s) = {1, 2}
        /\ CountAnswered(Rows(s)) = 1

\* C13: a start_quiz call that fails, because the course has too few questions
\* or because the selection raises, leaves every table as it was before the
\* call: a session of the user that was in_progress before the call is still
\* in_progress, with the same fields
StartQuizFails(u, c, quiz_length) ==
    \/ StartQuizInvalid(u, c, quiz_length)
    \/ \A r \in StartQuizResults(u, c, quiz_length) : r.status = "error"
C13_FailedStartWritesNothing ==
    [][/\ \A in \in StartInputs :
              (StartQuizBegin(1, in[1], in[2], in[3]) /\ StartQuizFails(in[1], in[2], in[3]))
                  => UNCHANGED db
       /\ \A p \in Procs :
              (StartQuizFinish(p) /\ StartQuizFails(pc[p].user_id, pc[p].course_id, pc[p].quiz_length))
                  => UNCHANGED db]_vars

\* C14: the InteractionLog rows of one user and question carry, in the order
\* they were appended, the attempt numbers 1..k, and is_first_attempt is true
\* on number 1 alone, also when two submit_answer calls for the same user and
\* question overlap
LogsOf(u, q) == {i \in DOMAIN interaction_logs : interaction_logs[i].user_id = u /\ interaction_logs[i].question_id = q}
C14_AttemptNumbersDistinct ==
    \A u \in Users, q \in Questions :
        \A i \in LogsOf(u, q) :
            /\ interaction_logs[i].attempt_number = Cardinality({j \in LogsOf(u, q) : j < i}) + 1
            /\ interaction_logs[i].is_first_attempt <=> interaction_logs[i].attempt_number = 1

\* C15: a start_quiz call that comes to insert its session while the user
\* already has an in_progress session, the insert a one-in-progress-per-user
\* uniqueness constraint forbids, ends with the report that a quiz is already
\* ongoing and not with a new session or a general error
C15_DuplicateStartReported ==
    \A p \in Procs :
        (pc[p].at = "select" /\ InProgressOf(pc[p].user_id) # {})
            => \A r \in StartQuizResults(pc[p].user_id, pc[p].course_id, pc[p].quiz_length) :
                   r.status = "error" /\ r.message = OngoingQuiz

\* C16: for a learner without history, start_quiz with a length from 1 to the
\* number of questions of the course succeeds with a roster of exactly that
\* many questions of the course, no question twice, whatever share of the
\* questions has a difficulty score
RosterIds(roster) == {roster[i].question_id : i \in DOMAIN roster}
C16_NewLearnerGetsFullRoster ==
    \A p \in Procs :
        (pc[p].at = "return" /\ pc[p].fn = "start_quiz" /\ pc[p].quiz_length <= Len(pc[p].difficulty))
            => /\ pc[p].status = "success"
               /\ Len(pc[p].roster) = pc[p].quiz_length
               /\ Cardinality(RosterIds(pc[p].roster)) = pc[p].quiz_length
               /\ RosterIds(pc[p].roster) \subseteq DOMAIN pc[p].difficulty

\* C17: when the candidates of a learner with history hold a weakness
\* question, one whose last attempt was incorrect, the questions selected
\* for a quiz of any length from 1 hold a weakness question
ReasonsOf(selected) == {selected[i].reason : i \in DOMAIN selected}
C17_WeaknessIsSelected ==
    \A p \in Procs :
        (pc[p].at = "return" /\ pc[p].fn = "select_questions" /\ pc[p].quiz_length >= 1 /\ pc[p].pool[1] >= 1)
            => "weakness" \in ReasonsOf(pc[p].selected)

\* C18: calculate_next_review_date(s) is now plus T[min(max(s, 0), 8)] days
\* for T = 1, 3, 7, 14, 30, 60, 120, 240, 480: after now for every s >= 0, never
\* shorter for a longer streak, 1 day for s = 0 and 480 days for every s >= 8
DefaultIntervals == <<1, 3, 7, 14, 30, 60, 120, 240, 480>>
C18_ReviewIntervalTable ==
    \A p \in Procs :
        (pc[p].at = "return" /\ pc[p].fn = "calculate_next_review_date")
            => LET s == pc[p].correct_streak
                   days == pc[p].interval_days
               IN /\ days = DefaultIntervals[Min(Max(s, 0), 8) + 1]
                  /\ s >= 0 => days > 0
                  /\ days <= calculate_next_review_date(s + 1)
                  /\ s = 0 => days = 1
                  /\ s >= 8 => days = 480

\* the review date of streak 9, one past the end of the table, is 480 days on
C18_StreakPastTable ==
    \E p \in Procs :
        /\ pc[p].at = "return" /\ pc[p].fn = "calculate_next_review_date"
        /\ pc[p].correct_streak = 9
        /\ pc[p].interval_days = 480

\* C19: for candidates with distinct ids and a quiz length N >= 1 the
\* distribution control returns exactly min(N, number of candidates)
\* questions, every one a candidate and none twice
C19_SelectionSizeAndDistinct ==
    \A p \in Procs :
        (pc[p].at = "return" /\ pc[p].fn = "select_questions" /\ pc[p].quiz_length >= 1)
            => LET selected == pc[p].selected
               IN /\ Len(selected) = Min(pc[p].quiz_length, PoolSize(pc[p].pool))
                  /\ QuestionIds(selected) \subseteq 1..PoolSize(pc[p].pool)
                  /\ Cardinality(QuestionIds(selected)) = Len(selected)
                  /\ \A i \in DOMAIN selected : selected[i] = SamplePool(pc[p].pool)[selected[i].question_id]

\* two of three candidates were selected, one of them by the fallback: the
\* quota of new questions is 0 for a quiz of 2 and a new question is selected
C19_FallbackFills ==
    \E p \in Procs :
        /\ pc[p].at = "return" /\ pc[p].fn = "select_questions"
        /\ pc[p].pool = <<0, 2, 0, 1>> /\ pc[p].quiz_length = 2
        /\ Len(pc[p].selected) = 2
        /\ ReasonsOf(pc[p].selected) = {"new", "random_review"}

\* C20: for a quiz length N >= 10 and candidates with at least N questions
\* of every category, the number of questions selected of a category is
\* within 1 of N times the target percentage of the category, the target of
\* random review being the percentage the other three leave over
CountReason(selected, reason) == Cardinality({i \in DOMAIN selected : selected[i].reason = reason})
target_random_pct == 100 - (target_weakness_pct + target_new_pct + target_srs_pct)
WithinOne(count, quiz_length, pct) == Abs(100 * count - quiz_length * pct) <= 100
C20_CountsNearTargets ==
    \A p \in Procs :
        (/\ pc[p].at = "return" /\ pc[p].fn = "select_questions"
         /\ pc[p].quiz_length >= 10
         /\ \A i \in 1..4 : pc[p].pool[i] >= pc[p].quiz_length)
            => /\ WithinOne(CountReason(pc[p].selected, "weakness"), pc[p].quiz_length, target_weakness_pct)
               /\ WithinOne(CountReason(pc[p].selected, "new"), pc[p].quiz_length, target_new_pct)
               /\ WithinOne(CountReason(pc[p].selected, "srs_due"), pc[p].quiz_length, target_srs_pct)
               /\ WithinOne(CountReason(pc[p].selected, "random_review"), pc[p].quiz_length, target_random_pct)

Scored(p) == pc[p].at = "return" /\ pc[p].fn = "_score_question" /\ pc[p].performance # NoPerformance

\* C22: a question whose last attempt was correct is tagged srs_due exactly
\* when its review date is set and is not later than now; a review date later
\* than now by any amount, less than a day included, is not tagged srs_due
C22_DueExactlyWhenReviewDateReached ==
    \A p \in Procs :
        (Scored(p) /\ pc[p].performance.last_attempt_correct)
            => (pc[p].scored.reason = "srs_due"
                   <=> /\ pc[p].performance.next_review_date # NULL
                       /\ Val(pc[p].performance.next_review_date) * TicksPerDay <= pc[p].elapsed)

\* C23: a question whose last attempt was incorrect is scored as a weakness
\* with 100 + 20 * (1 - total_correct / total_attempts), where no attempts
\* give the error rate 1 and a total_correct above total_attempts counts as 0
ClaimedWeaknessScore(total_attempts, total_correct) ==
    IF total_attempts = 0 \/ total_correct > total_attempts THEN <<weakness_weight + 20, 1>>
    ELSE <<weakness_weight * total_attempts + 20 * (total_attempts - total_correct), total_attempts>>
C23_WeaknessScore ==
    \A p \in Procs :
        (Scored(p) /\ ~pc[p].performance.last_attempt_correct)
            => /\ pc[p].scored.reason = "weakness"
               /\ RatEq(pc[p].scored.score,
                        ClaimedWeaknessScore(pc[p].performance.total_attempts, pc[p].performance.total_correct))

\* the ids of a course's questions whose difficulty_score is in a band
InBand(difficulty, lo, hi) ==
    {q \in DOMAIN difficulty : difficulty[q] # NULL /\ lo < Val(difficulty[q]) /\ Val(difficulty[q]) <= hi}
CountIn(ids, S) == Cardinality({i \in DOMAIN ids : ids[i] \in S})
Distinct(ids) == \A i, j \in DOMAIN ids : i # j => ids[i] # ids[j]

\* C24: a new learner's questions come from the difficulty ramp exactly when
\* at least 80% of the course's questions carry a difficulty score (only
\* scored questions, int(N * 25%) easy and hard and the rest medium as far as
\* the bands reach, topped up from the scored ones), and are N of all the
\* course's questions without repetition exactly when fewer than 80% do
C24_RampFromEightyPercent ==
    \A p \in Procs :
        (pc[p].at = "return" /\ pc[p].fn = "start_quiz")
            => LET difficulty == pc[p].difficulty
                   n == pc[p].quiz_length
                   ids == pc[p].selected_ids
                   all == DOMAIN difficulty
                   scored == {q \in all : difficulty[q] # NULL}
                   easy == InBand(difficulty, 0 - 1, band_easy)
                   medium == InBand(difficulty, band_easy, band_medium)
                   hard == scored \ (easy \cup medium)
                   quarter == (n * 25) \div 100
               IN /\ Distinct(ids)
                  /\ IF Cardinality(scored) * 10 >= 8 * Cardinality(all)
                     THEN /\ Range(ids) \subseteq scored
                          /\ Len(ids) = Min(n, Cardinality(scored))
                          /\ CountIn(ids, easy) >= Min(quarter, Cardinality(easy))
                          /\ CountIn(ids, hard) >= Min(quarter, Cardinality(hard))
                          /\ CountIn(ids, medium) >= Min(n - 2 * quarter, Cardinality(medium))
                     ELSE /\ Range(ids) \subseteq all
                          /\ Len(ids) = Min(n, Cardinality(all))

C26_FinalScoreInRange ==
    \A s \in SessionIds :
        quiz_sessions[s].final_score # NULL
            => LET score == Val(quiz_sessions[s].final_score)
               IN score[2] > 0 /\ 0 <= score[1] /\ score[1] <= 100 * score[2]

\* C27: every session whose status is completed, incomplete or cancelled has
\* a completion time and a final score, the sessions closed by the start of
\* the same user's next quiz or by the clearing for an update included
C27_ClosedSessionsAreScored ==
    \A s \in SessionIds :
        quiz_sessions[s].status \in Terminal
            => quiz_sessions[s].completed_at # NULL /\ quiz_sessions[s].final_score # NULL

\* C28: submit_answer for a question that exists but is not in the roster of
\* the session records nothing (the tables stay as they are stored), hence
\* every InteractionLog row refers to a (session, question) pair of a roster
C28_OffRosterSubmitRecordsNothing ==
    /\ \A s \in SessionIds, q \in Questions, a \in Answers \cup {Skipped} :
           RowsOfQuestion(s, q) = {} => Submitted(s, q, a) = Stored
    /\ \A i \in DOMAIN interaction_logs :
           RowsOfQuestion(interaction_logs[i].session_id, interaction_logs[i].question_id) # {}

\* the InteractionLog rows of a question
LogsOfQuestion(q) == {i \in DOMAIN interaction_logs : interaction_logs[i].question_id = q}

\* C29: for every question (the counters start at 0), total_attempts is the
\* number of InteractionLog rows of the question and total_incorrect the
\* number of those with is_correct false, after the committed submit_answer
\* calls, overlapping ones of different users for the same question included
C29_CountersMatchLogs ==
    \A q \in Questions :
        /\ questions[q].total_attempts = Cardinality(LogsOfQuestion(q))
        /\ questions[q].total_incorrect = Cardinality({i \in LogsOfQuestion(q) : ~interaction_logs[i].is_correct})

\* C30: a session of N roster entries that a single conversation drives by
\* asking for the next question and submitting or skipping the one returned
\* is completed after exactly N submissions: each submission marks one more
\* entry answered, the session is in progress before the N-th and completed
\* from it on, and the session is eventually completed
C30_CompletedAfterNSubmissions ==
    /\ [](\A p \in Procs :
             LET s == pc[p].session_id
             IN /\ pc[p].submissions = CountAnswered(Rows(s))
                /\ pc[p].submissions <= Len(Rows(s))
                /\ quiz_sessions[s].status = (IF pc[p].submissions = Len(Rows(s)) THEN "completed" ELSE "in_progress"))
    /\ \A p \in Procs : (quiz_sessions[p].status = "in_progress") ~> (quiz_sessions[p].status = "completed")

\* both conversations have ended; the first submitted twice for a roster of
\* two and its session is completed
C30_TwoQuestionsTwoSubmissions ==
    /\ \A p \in Procs : pc[p].at = "end"
    /\ pc[1].submissions = 2 /\ Len(Rows(1)) = 2
    /\ quiz_sessions[1].status = "completed" /\ quiz_sessions[2].status = "completed"

====
